---- MODULE Spec2Model ----
(***************************************************************************)
(* Model of the reminder store of advanced_reminder_app_final.py: the      *)
(* Reminder record, the canonical sort, the JSON persistence round trip    *)
(* and the handlers of ReminderApp that mutate reminders_list.             *)
(*                                                                         *)
(* Text is a sequence of one-character strings, so that strip(), strptime  *)
(* and strftime are computed character by character.  A datetime is the    *)
(* tuple <<year, month, day, hour, minute, sub>>, `sub' being everything   *)
(* below the minute (seconds and microseconds) as one number.              *)
(***************************************************************************)
EXTENDS Integers, Sequences, FiniteSets, TLC

\* Bounds of the model (not program constants).
MaxLen == 2
MaxTick == 1

-----------------------------------------------------------------------------
(* Configuration, lines 6-9 *)

DEFAULT_FILENAME == "reminders_data.json"

PRIORITY_LEVELS == <<"High", "Medium", "Low">>

-----------------------------------------------------------------------------
(* Text *)

Digit == <<"0", "1", "2", "3", "4", "5", "6", "7", "8", "9">>

IsDigit(c) == \E k \in 1..10 : Digit[k] = c

DigitVal(c) == (CHOOSE k \in 1..10 : Digit[k] = c) - 1

IsSpace(c) == c \in {" ", "\t", "\n"}

\* s[i], or "" past either end of s.
At(s, i) == IF i \in 1..Len(s) THEN s[i] ELSE ""

\* int() of a string of digits.
RECURSIVE Num(_)
Num(s) == IF s = <<>> THEN 0
          ELSE 10 * Num(SubSeq(s, 1, Len(s) - 1)) + DigitVal(s[Len(s)])

\* The decimal digits of n >= 0, without padding.
RECURSIVE Decimal(_)
Decimal(n) == IF n < 10 THEN <<Digit[n + 1]>>
              ELSE Decimal(n \div 10) \o <<Digit[(n % 10) + 1]>>

\* "%02d"
Pad2(n) == IF n < 10 THEN <<"0">> \o Decimal(n) ELSE Decimal(n)

\* Length of the run of digits (of white space) of s that starts at i.
RECURSIVE DigitRun(_, _)
DigitRun(s, i) == IF IsDigit(At(s, i)) THEN 1 + DigitRun(s, i + 1) ELSE 0

RECURSIVE SpaceRun(_, _)
SpaceRun(s, i) == IF IsSpace(At(s, i)) THEN 1 + SpaceRun(s, i + 1) ELSE 0

\* str.strip(): leading and trailing white space removed.
RECURSIVE LStrip(_)
LStrip(s) == IF s # <<>> /\ IsSpace(Head(s)) THEN LStrip(Tail(s)) ELSE s

RECURSIVE RStrip(_)
RStrip(s) == IF s # <<>> /\ IsSpace(s[Len(s)])
             THEN RStrip(SubSeq(s, 1, Len(s) - 1)) ELSE s

Strip(s) == RStrip(LStrip(s))

-----------------------------------------------------------------------------
(* datetime *)

IsLeap(y) == (y % 4 = 0 /\ y % 100 # 0) \/ y % 400 = 0

DaysInMonth(y, m) == IF m = 2 THEN (IF IsLeap(y) THEN 29 ELSE 28)
                     ELSE IF m \in {4, 6, 9, 11} THEN 30 ELSE 31

\* Lexicographic order of two tuples of numbers of the same length: this is
\* how Python compares datetimes field by field and the sort key tuples.
RECURSIVE TupleLess(_, _)
TupleLess(a, b) == /\ a # <<>>
                   /\ \/ Head(a) < Head(b)
                      \/ Head(a) = Head(b) /\ TupleLess(Tail(a), Tail(b))

\* DATE_FORMAT "%Y-%m-%d %H:%M", one character for each directive; " " is
\* the white space of the format.
DATE_FORMAT == <<"Y", "-", "m", "-", "d", " ", "H", ":", "M">>

(* datetime.strptime compiles DATE_FORMAT to the regular expression        *)
(*   (\d\d\d\d)-(1[0-2]|0[1-9]|[1-9])-(3[01]|[12]\d|0[1-9]|[1-9]| [1-9])   *)
(*   \s+(2[0-3]|[0-1]\d|\d):([0-5]\d|\d)                                   *)
(* Match is the match of the directives from the k-th on against s from    *)
(* place pos on: the numbers read, after those of vals, or <<>> when s     *)
(* does not match or text is left over.  A number of one or two digits     *)
(* that is out of the range of its directive fails in DateOf.              *)
RECURSIVE Match(_, _, _, _)
Match(s, pos, k, vals) ==
    IF k > Len(DATE_FORMAT)
    THEN IF pos = Len(s) + 1 THEN vals ELSE <<>>
    ELSE IF DATE_FORMAT[k] = "Y"
    THEN IF DigitRun(s, pos) >= 4
         THEN Match(s, pos + 4, k + 1, Append(vals, Num(SubSeq(s, pos, pos + 3))))
         ELSE <<>>
    ELSE IF DATE_FORMAT[k] = " "
    THEN IF SpaceRun(s, pos) >= 1
         THEN Match(s, pos + SpaceRun(s, pos), k + 1, vals)
         ELSE <<>>
    ELSE IF DATE_FORMAT[k] \in {"-", ":"}
    THEN IF At(s, pos) = DATE_FORMAT[k]
         THEN Match(s, pos + 1, k + 1, vals)
         ELSE <<>>
    ELSE IF DATE_FORMAT[k] = "d" /\ At(s, pos) = " "
    THEN IF DigitRun(s, pos + 1) = 1
         THEN Match(s, pos + 2, k + 1, Append(vals, DigitVal(s[pos + 1])))
         ELSE <<>>
    ELSE IF DigitRun(s, pos) \in 1..2
    THEN Match(s, pos + DigitRun(s, pos), k + 1,
               Append(vals, Num(SubSeq(s, pos, pos + DigitRun(s, pos) - 1))))
    ELSE <<>>

(* The datetime of the numbers v that Match read, or [ok |-> FALSE] for    *)
(* the ValueError of a text that does not match or is no date (month 13,   *)
(* day 30 of February).                                                    *)
DateOf(v) ==
    IF /\ v # <<>>
       /\ v[1] >= 1
       /\ v[2] \in 1..12
       /\ v[3] >= 1 /\ v[3] <= DaysInMonth(v[1], v[2])
       /\ v[4] \in 0..23
       /\ v[5] \in 0..59
    THEN [ok |-> TRUE, dt |-> v \o <<0>>]
    ELSE [ok |-> FALSE]

\* datetime.strptime(s, DATE_FORMAT).
_strptime(s) == DateOf(Match(s, 1, 1, <<>>))

\* The texts of dates that the forms and the documents below hold.
T_JAN == <<"2","0","2","5","-","0","1","-","0","1"," ","0","9",":","0","0">>

T_MAY == <<"2","0","2","5","-","0","5","-","0","1"," ","1","0",":","0","0">>

\* The same minute as T_MAY, written without the zeros.
T_MAY_SHORT == <<"2","0","2","5","-","5","-","1"," ","1","0",":","0">>

T_Y999 == <<"0","9","9","9","-","0","1","-","0","1"," ","0","9",":","0","0">>

T_FEB30 == <<"2","0","2","5","-","0","2","-","3","0"," ","0","9",":","0","0">>

T_NOT_A_DATE == <<"n","o","t","-","a","-","d","a","t","e">>

T_CREATED == <<"2","0","2","4","-","1","2","-","3","1"," ","0","8",":","0","0">>

DateTexts == {<<>>, T_JAN, T_MAY, T_MAY_SHORT, T_Y999, T_FEB30, T_NOT_A_DATE, T_CREATED}

\* What _strptime gives for each of them, computed once.
Parsed == [s \in DateTexts |-> _strptime(s)]

\* datetime.strptime(s, DATE_FORMAT): ok and the datetime, or ValueError.
Strptime(s) == IF s \in DateTexts THEN Parsed[s] ELSE _strptime(s)

(* dt.strftime(DATE_FORMAT).  CPython hands %Y to the platform's strftime, *)
(* which on glibc writes the year without padding ("999" for the year 999);*)
(* the other fields are two digits wide.  Seconds are not written.         *)
Strftime(dt) ==
    Decimal(dt[1]) \o <<"-">> \o Pad2(dt[2]) \o <<"-">> \o Pad2(dt[3])
        \o <<" ">> \o Pad2(dt[4]) \o <<":">> \o Pad2(dt[5])

-----------------------------------------------------------------------------
(* JSON values, as json.load returns them.  A value is a record with one   *)
(* field that names its type: [str |-> text], [num |-> n], [bool |-> b],   *)
(* [null |-> TRUE], [arr |-> sequence of values], [obj |-> dict].  A dict  *)
(* is a record holding the keys that are present; of its values only       *)
(* due_date_str is modelled as a JSON value of any type, the others have   *)
(* the type to_dict writes (text, text, BOOLEAN, text; priority a string). *)

IsStr(v) == "str" \in DOMAIN v
IsArr(v) == "arr" \in DOMAIN v
IsObj(v) == "obj" \in DOMAIN v

S(text) == [str |-> text]

None == [null |-> TRUE]

-----------------------------------------------------------------------------
(* class Reminder *)

(* Reminder.__init__, lines 15-33.  `id' names the object (Python object   *)
(* identity), `t' is what datetime.now() returns during the call.          *)
(* creation_date is a JSON value: None or "" (falsy) is replaced by now.   *)
(* The caller never passes a datetime as due_date_str, so the branch of    *)
(* line 29 is not reachable and a value that is no string falls to line 33.*)
ReminderFallback(id, task, due_date_str, priority, details, is_completed, creation_date, t) ==
    [id            |-> id,
     task          |-> task,
     priority      |-> priority,
     details       |-> details,
     is_completed  |-> is_completed,
     creation_date |-> IF IsStr(creation_date) /\ creation_date.str # <<>>
                       THEN creation_date.str ELSE Strftime(t),
     due_date      |-> IF IsStr(due_date_str)
                       THEN LET parsed == Strptime(due_date_str.str)
                            IN  IF parsed.ok THEN parsed.dt ELSE <<1, 1, 1, 0, 0, 0>>
                       ELSE <<1, 1, 1, 0, 0, 0>>]

Reminder(id, task, due_date_str, priority, details, is_completed, creation_date, t) ==
    [id            |-> id,
     task          |-> task,
     priority      |-> priority,
     details       |-> details,
     is_completed  |-> is_completed,
     creation_date |-> IF IsStr(creation_date) /\ creation_date.str # <<>>
                       THEN creation_date.str ELSE Strftime(t),
     due_date      |-> IF IsStr(due_date_str)
                       THEN LET parsed == Strptime(due_date_str.str)
                            IN  IF parsed.ok THEN parsed.dt ELSE t
                       ELSE t]

\* Reminder.to_dict, lines 36-45.
to_dict(r) ==
    [obj |-> [task          |-> r.task,
              due_date_str  |-> S(Strftime(r.due_date)),
              priority      |-> r.priority,
              details       |-> r.details,
              is_completed  |-> r.is_completed,
              creation_date |-> r.creation_date]]

(* Reminder.from_dict, lines 47-57.  data["task"], data["due_date_str"]   *)
(* or data["priority"] raises when data is no dict (TypeError) or the key  *)
(* is absent (KeyError).                                                   *)
FromDictRaises(data) ==
    ~IsObj(data) \/ ~({"task", "due_date_str", "priority"} \subseteq DOMAIN data.obj)

from_dict(data, id, t) ==
    LET d == data.obj
    IN  Reminder(id, d.task, d.due_date_str, d.priority,
                 IF "details" \in DOMAIN d THEN d.details ELSE <<>>,
                 IF "is_completed" \in DOMAIN d THEN d.is_completed ELSE FALSE,
                 IF "creation_date" \in DOMAIN d THEN S(d.creation_date) ELSE None,
                 t)

-----------------------------------------------------------------------------
(* The canonical sort, lines 247-250 *)

\* priority_map: High=0, Medium=1, Low=2; -1 stands for KeyError.
priority_map(p) == IF \E i \in 1..Len(PRIORITY_LEVELS) : PRIORITY_LEVELS[i] = p
                   THEN (CHOOSE i \in 1..Len(PRIORITY_LEVELS) : PRIORITY_LEVELS[i] = p) - 1
                   ELSE -1

\* The key of line 250, flattened: (is_completed, due_date, priority rank).
SortKey(r) ==
    <<IF r.is_completed THEN 1 ELSE 0>> \o r.due_date \o <<priority_map(r.priority)>>

\* The key function raises KeyError for a priority outside PRIORITY_LEVELS.
SortRaises(list) == \E i \in 1..Len(list) : priority_map(list[i].priority) = -1

\* r put in front of the elements that are not smaller: what an unstable
\* sort may do with equal keys.
RECURSIVE InsertUnstable(_, _)
InsertUnstable(r, sorted) ==
    IF sorted = <<>> THEN <<r>>
    ELSE IF ~TupleLess(SortKey(Head(sorted)), SortKey(r))
         THEN <<r>> \o sorted
         ELSE <<Head(sorted)>> \o InsertUnstable(r, Tail(sorted))

\* r put into the sorted list `sorted', behind every element that is not
\* greater: inserting the elements from left to right is a stable sort.
RECURSIVE InsertSorted(_, _)
InsertSorted(r, sorted) ==
    IF sorted = <<>> THEN <<r>>
    ELSE IF TupleLess(SortKey(r), SortKey(Head(sorted)))
         THEN <<r>> \o sorted
         ELSE <<Head(sorted)>> \o InsertSorted(r, Tail(sorted))

RECURSIVE StableSort(_)
StableSort(list) ==
    IF list = <<>> THEN <<>>
    ELSE InsertSorted(list[Len(list)], StableSort(SubSeq(list, 1, Len(list) - 1)))

(* list.sort(key=...) of line 250.  The keys are computed before anything  *)
(* moves, so when the key function raises the list is left as it was.      *)
_sort_reminders(list) == IF SortRaises(list) THEN list ELSE StableSort(list)

-----------------------------------------------------------------------------
(* State of ReminderApp *)

VARIABLES
    reminders_list,     \* self.reminders_list: sequence of Reminder
    current_filename,   \* self.current_filename
    reminders_tree,     \* rows of the Treeview; the row at position i has iid i-1
    selection,          \* reminders_tree.selection(): <<>> or <<iid>>
    task_entry,         \* text of the four input widgets
    due_date_entry,
    priority_var,
    details_text,
    add_button,         \* state of the buttons: "normal" or "disabled"
    update_button,
    edit_button,
    delete_button,
    complete_button,
    now,                \* the clock: what datetime.now() returns
    disk,               \* the files written by _save_reminders, by name
    inserted,           \* history: ids of reminders_list in the order they were put in
    editing             \* history: id of the reminder "Load for Edit" put into the
                        \* widgets, 0 when none is being edited

fields == <<task_entry, due_date_entry, priority_var, details_text>>

buttons == <<add_button, update_button, edit_button, delete_button, complete_button>>

vars == <<reminders_list, current_filename, reminders_tree, selection, fields,
          buttons, now, disk, inserted, editing>>

-----------------------------------------------------------------------------
(* Objects *)

Ids(list) == {list[i].id : i \in 1..Len(list)}

\* The k-th smallest name that `used' does not hold: a new object is none of
\* the objects still referenced.
RECURSIVE NthFree(_, _)
NthFree(used, k) ==
    LET first == CHOOSE n \in 1..(Cardinality(used) + 1) : n \notin used /\ \A m \in 1..(n - 1) : m \in used
    IN  IF k <= 1 THEN first ELSE NthFree(used \cup {first}, k - 1)

\* datetime.now() at the k-th call within one handler: the clock never
\* returns the same microsecond twice.
NowAt(t, k) == [t EXCEPT ![6] = t[6] + k]

IndexOfId(list, id) == CHOOSE i \in 1..Len(list) : list[i].id = id

RemoveAt(list, i) == SubSeq(list, 1, i - 1) \o SubSeq(list, i + 1, Len(list))

IdSeq(list) == [i \in 1..Len(list) |-> list[i].id]

-----------------------------------------------------------------------------
(* The Treeview *)

\* The values of one row, lines 260-268.
Row(r) == <<IF r.is_completed THEN "done" ELSE "pending", r.task,
            Strftime(r.due_date), r.priority, r.creation_date, r.details>>

\* _refresh_reminders_tree, lines 253-285: every row is deleted, then one row
\* is inserted for each reminder, with iid str(i).
_refresh_reminders_tree(list) == [i \in 1..Len(list) |-> Row(list[i])]

\* _get_selected_reminder_object, lines 311-323: the position in
\* reminders_list of the selected reminder, 0 for None.
_get_selected_reminder_object(sel, list) ==
    IF sel = <<>> THEN 0
    ELSE IF 0 <= sel[1] /\ sel[1] < Len(list) THEN sel[1] + 1 ELSE 0

SetButtons(a, u, e) ==
    /\ add_button' = a
    /\ update_button' = u
    /\ edit_button' = e
    /\ delete_button' = e
    /\ complete_button' = e

(* The buttons when a handler returns.  a, u, e are the states the handler *)
(* itself leaves (add, update, and the three row buttons).  When the       *)
(* handler changed the selection, Tk queues <<TreeviewSelect>> and         *)
(* _on_reminder_select (lines 296-309) runs next, on the selection `sel'   *)
(* the handler leaves.                                                     *)
AfterEvents(ev, sel, a, u, e) ==
    IF ev
    THEN IF sel # <<>> THEN SetButtons(a, u, "normal")
         ELSE SetButtons("normal", "disabled", "disabled")
    ELSE SetButtons(a, u, e)

(* Deleting the selected row empties the selection.  Whether Tk then sends *)
(* <<TreeviewSelect>> depends on the Tk release, so both happen.           *)
DeleteEvents == IF selection # <<>> THEN BOOLEAN ELSE {FALSE}

\* _clear_input_fields, lines 189-193: the four widgets.
ClearedFields ==
    /\ task_entry' = <<>>
    /\ due_date_entry' = Strftime(now)
    /\ priority_var' = PRIORITY_LEVELS[2]
    /\ details_text' = <<>>

(* The reminder being edited when a handler returns that is not "Load for  *)
(* Edit" and has left `list': the one that was being edited, as long as    *)
(* "Update Selected" stays enabled and the object is still in the list.    *)
StillEditing(list) ==
    editing' = IF update_button' = "normal" /\ editing \in Ids(list) THEN editing ELSE 0

-----------------------------------------------------------------------------
(* Inputs: what the user types, and the files the user opens *)

\* The clock when the application starts.
StartTime == <<2025, 1, 1, 9, 0, 30>>

\* What the user types into the four widgets before pressing a button.
Forms ==
    { [task |-> <<"a">>,           due |-> T_JAN,                  priority |-> "High", details |-> <<>>],
      [task |-> <<" ", "b", " ">>, due |-> <<" ">> \o T_MAY_SHORT, priority |-> "Low",  details |-> <<"x", "\n">>],
      [task |-> <<" ">>,           due |-> T_JAN,                  priority |-> "High", details |-> <<>>],
      [task |-> <<"a">>,           due |-> <<" ">>,                priority |-> "High", details |-> <<>>],
      [task |-> <<"a">>,           due |-> T_NOT_A_DATE,           priority |-> "High", details |-> <<>>] }

\* Elements of the documents.
E_FULL == [obj |-> [task |-> <<"b">>, due_date_str |-> S(T_MAY), priority |-> "Low",
                    details |-> <<"x">>, is_completed |-> TRUE]]

\* E_FULL as an earlier session saved it.
E_OLD == [obj |-> [task |-> <<"b">>, due_date_str |-> S(T_MAY), priority |-> "Low",
                   details |-> <<"x">>, is_completed |-> TRUE, creation_date |-> T_CREATED]]

E_MINIMAL == [obj |-> [task |-> <<"a">>, due_date_str |-> S(T_JAN), priority |-> "High"]]

E_BAD_DUE == [obj |-> [task |-> <<"a">>, due_date_str |-> S(T_FEB30), priority |-> "High"]]

E_DUE_NO_STRING == [obj |-> [task |-> <<"a">>, due_date_str |-> [num |-> 7], priority |-> "High",
                             creation_date |-> <<>>]]

E_BAD_PRIORITY == [obj |-> [task |-> <<"a">>, due_date_str |-> S(T_JAN), priority |-> "Urgent"]]

\* An element whose task is the empty string.
E_EMPTY_TASK == [obj |-> [task |-> <<>>, due_date_str |-> S(T_JAN), priority |-> "High"]]

E_NO_TASK == [obj |-> [due_date_str |-> S(T_JAN), priority |-> "High"]]

E_NUMBER == [num |-> 5]

\* A file that does not exist, and one whose text is no JSON.
FileMissing == [missing |-> TRUE]

FileInvalid == [invalid |-> TRUE]

\* Documents whose top level is no array.
NonArrayDocuments ==
    { None, [num |-> 5], [bool |-> TRUE], S(<<>>), S(<<"a", "b">>),
      [obj |-> [x \in {} |-> 0]], [obj |-> [task |-> <<"a">>]] }

ArrayDocuments ==
    { [arr |-> <<>>],
      [arr |-> <<E_FULL>>],
      [arr |-> <<E_BAD_DUE, E_MINIMAL>>],
      [arr |-> <<E_DUE_NO_STRING>>],
      [arr |-> <<E_FULL, E_BAD_PRIORITY>>],
      [arr |-> <<E_MINIMAL, E_NO_TASK>>],
      [arr |-> <<E_EMPTY_TASK>>],
      [arr |-> <<E_NUMBER>>] }

Files == {FileMissing, FileInvalid} \cup NonArrayDocuments \cup ArrayDocuments

\* Another name the user picks in the "Save As" and "Open" dialogs.
OTHER_FILENAME == "other.json"

Filenames == {DEFAULT_FILENAME, OTHER_FILENAME}

-----------------------------------------------------------------------------
(* Loading, lines 474-492 *)

(* `for item in data_loaded': what the loop of line 478 iterates over.  A  *)
(* list gives its elements, a dict its keys and a str its characters (all  *)
(* of them strings); None, a number or a bool raises TypeError.            *)
Iter(data) ==
    IF IsArr(data) THEN [ok |-> TRUE, items |-> data.arr]
    ELSE IF IsObj(data)
         THEN [ok |-> TRUE, items |-> [i \in 1..Cardinality(DOMAIN data.obj) |-> S(<<>>)]]
    ELSE IF IsStr(data)
         THEN [ok |-> TRUE, items |-> [i \in 1..Len(data.str) |-> S(<<data.str[i]>>)]]
    ELSE [ok |-> FALSE]

(* [Reminder.from_dict(item) for item in data_loaded], line 478: the new   *)
(* list, or [ok |-> FALSE] when from_dict raises for some item.  The new   *)
(* objects are named by the names not in `used'.                           *)
Decode(items, used, t) ==
    IF \E i \in 1..Len(items) : FromDictRaises(items[i])
    THEN [ok |-> FALSE]
    ELSE [ok   |-> TRUE,
          list |-> [i \in 1..Len(items) |-> from_dict(items[i], NthFree(used, i), NowAt(t, i))]]

(* _load_reminders_core(filename) on a file that holds `file', from the    *)
(* state (list, tree, sel, cur, ins) at time t: the state it leaves.       *)
(* refreshed tells that _refresh_reminders_tree ran.                       *)
LoadUnchanged(list, tree, sel, cur, ins, msg) ==
    [list |-> list, tree |-> tree, selection |-> sel, current_filename |-> cur,
     inserted |-> ins, report |-> msg, refreshed |-> FALSE, replaced |-> FALSE]

_load_reminders_core(file, filename, list, tree, sel, cur, ins, t) ==
    IF "missing" \in DOMAIN file
    THEN LoadUnchanged(list, tree, sel, cur, ins, "Load Error: file not found")
    ELSE IF "invalid" \in DOMAIN file
    THEN LoadUnchanged(list, tree, sel, cur, ins, "Load Error: not a valid JSON")
    ELSE
    LET it == Iter(file)
    IN  IF ~it.ok
        THEN LoadUnchanged(list, tree, sel, cur, ins, "Load Error: Failed to load reminders")
        ELSE
        LET dec == Decode(it.items, {}, t)
        IN  IF ~dec.ok
            THEN LoadUnchanged(list, tree, sel, cur, ins, "Load Error: Failed to load reminders")
            ELSE IF SortRaises(dec.list)
            THEN \* line 478 has replaced the list when line 479 raises KeyError;
                 \* the rows of the tree stay
                 [list |-> _sort_reminders(dec.list), tree |-> tree, selection |-> sel,
                      current_filename |-> cur, inserted |-> IdSeq(dec.list),
                      report |-> "Load Error: Failed to load reminders", refreshed |-> FALSE,
                      replaced |-> TRUE]
            ELSE LET sorted == _sort_reminders(dec.list)
                 IN  [list |-> sorted, tree |-> _refresh_reminders_tree(sorted),
                      selection |-> <<>>, current_filename |-> filename,
                      inserted |-> IdSeq(dec.list), report |-> "Reminders loaded",
                      refreshed |-> TRUE, replaced |-> TRUE]

-----------------------------------------------------------------------------
(* The state after ReminderApp.__init__, lines 64-73: the widgets of       *)
(* _setup_ui, then _load_reminders_on_startup (lines 452-462) on whatever  *)
(* the default file holds.                                                 *)

Startup(file) ==
    /\ now = StartTime
    /\ task_entry = <<>>
    /\ due_date_entry = Strftime(StartTime)
    /\ priority_var = PRIORITY_LEVELS[2]
    /\ details_text = <<>>
    /\ add_button = "normal"
    /\ update_button = "disabled"
    /\ edit_button = "disabled"
    /\ delete_button = "disabled"
    /\ complete_button = "disabled"
    /\ disk = [f \in Filenames |-> FileMissing]
    /\ LET res == _load_reminders_core(file, DEFAULT_FILENAME, <<>>, <<>>, <<>>,
                                       DEFAULT_FILENAME, <<>>, StartTime)
       IN  /\ reminders_list = res.list
           /\ reminders_tree = res.tree
           /\ selection = res.selection
           /\ current_filename = res.current_filename
           /\ inserted = res.inserted
    /\ editing = 0

Init == \E file \in Files : Startup(file)

-----------------------------------------------------------------------------
(* The user and the clock *)

\* What the widgets hold.
Widgets == [task |-> task_entry, due |-> due_date_entry, priority |-> priority_var,
            details |-> details_text]

(* The user fills the widgets and presses a button in one step: `form' is  *)
(* what the widgets hold when the handler reads them, either what they     *)
(* held already or something typed over it.                                *)
Typed == Forms \cup {Widgets}

Filled(form) ==
    /\ task_entry' = form.task
    /\ due_date_entry' = form.due
    /\ priority_var' = form.priority
    /\ details_text' = form.details

\* The user clicks a row: Tk selects it and sends <<TreeviewSelect>>, and
\* _on_reminder_select (lines 296-309) enables the three row buttons.
SelectRow ==
    \E i \in 0..(Len(reminders_tree) - 1) :
        /\ selection' = <<i>>
        /\ AfterEvents(TRUE, <<i>>, add_button, update_button, edit_button)
        /\ StillEditing(reminders_list)
        /\ UNCHANGED <<reminders_list, current_filename, reminders_tree, fields,
                       now, disk, inserted>>

\* A minute passes.
Tick ==
    /\ now[5] < StartTime[5] + MaxTick
    /\ now' = [now EXCEPT ![5] = now[5] + 1]
    /\ UNCHANGED <<reminders_list, current_filename, reminders_tree, selection,
                   fields, buttons, disk, inserted, editing>>

-----------------------------------------------------------------------------
(* Handlers *)

\* A handler that returns after the message box `msg', having changed nothing.
Rejected(msg) == UNCHANGED vars

\* The same for a handler that read what the user typed.
RejectedForm(form, msg) ==
    /\ Filled(form)
    /\ UNCHANGED <<reminders_list, current_filename, reminders_tree, selection,
                   buttons, now, disk, inserted, editing>>

(* _sort_reminders raised KeyError: the handler stops there, Tk reports    *)
(* the exception of the callback and the application goes on.  Only what   *)
(* the handler did to the list before the sort remains.                    *)
Raised(list, ins) ==
    /\ reminders_list' = list
    /\ inserted' = ins
    /\ UNCHANGED <<current_filename, reminders_tree, selection, fields, buttons,
                   now, disk>>
    /\ StillEditing(list)

RaisedForm(form, list, ins) ==
    /\ reminders_list' = list
    /\ inserted' = ins
    /\ Filled(form)
    /\ UNCHANGED <<current_filename, reminders_tree, selection, buttons, now, disk>>
    /\ StillEditing(list)

\* "Clear Fields": _clear_input_fields, lines 188-200.
_clear_input_fields ==
    /\ ClearedFields
    /\ selection' = <<>>
    /\ AfterEvents(selection # <<>>, <<>>, "normal", "disabled", edit_button)
    /\ StillEditing(reminders_list)
    /\ UNCHANGED <<reminders_list, current_filename, reminders_tree, now, disk, inserted>>

\* "Now": _set_due_date_to_now, lines 184-186.
_set_due_date_to_now ==
    /\ due_date_entry' = Strftime(now)
    /\ UNCHANGED <<reminders_list, current_filename, reminders_tree, selection,
                   task_entry, priority_var, details_text, buttons, now, disk, inserted,
                   editing>>

\* File > New: _clear_all_fields_and_list, lines 203-210, answered yes.
_clear_all_fields_and_list ==
    /\ ClearedFields
    /\ reminders_list' = <<>>
    /\ inserted' = <<>>
    /\ reminders_tree' = _refresh_reminders_tree(reminders_list')
    /\ selection' = <<>>
    /\ AfterEvents(selection # <<>>, <<>>, "normal", "disabled", edit_button)
    /\ StillEditing(reminders_list')
    /\ current_filename' = DEFAULT_FILENAME
    /\ UNCHANGED <<now, disk>>

\* "Delete All": _delete_all_reminders, lines 394-399, answered yes.
_delete_all_reminders ==
    /\ reminders_list' = <<>>
    /\ inserted' = <<>>
    /\ reminders_tree' = _refresh_reminders_tree(reminders_list')
    /\ selection' = <<>>
    /\ ClearedFields
    /\ \E ev \in DeleteEvents :
           AfterEvents(ev, <<>>, "normal", "disabled", edit_button)
    /\ StillEditing(reminders_list')
    /\ UNCHANGED <<current_filename, now, disk>>

(* The checks of lines 219-231 and 353-364 on the stripped task and due    *)
(* date: the message of the first that fails, "" when all pass.            *)
ValidationTaskOnly(task, due_date_str) ==
    IF task = <<>> THEN "Input Error: Task cannot be empty." ELSE ""

Validation(task, due_date_str) ==
    IF task = <<>> THEN "Input Error: Task cannot be empty."
    ELSE IF due_date_str = <<>> THEN "Input Error: Due date cannot be empty."
    ELSE IF ~Strptime(due_date_str).ok THEN "Input Error: Invalid due date format."
    ELSE ""

\* What a successful handler does after the sort: lines 245+235, 374-377,
\* 388-389.  The refresh deletes every row, so nothing is selected.
RefreshAndClear(msg) ==
    /\ reminders_tree' = _refresh_reminders_tree(reminders_list')
    /\ selection' = <<>>
    /\ ClearedFields
    /\ \E ev \in DeleteEvents :
           AfterEvents(ev, <<>>, "normal", "disabled", edit_button)
    /\ StillEditing(reminders_list')
    /\ UNCHANGED <<current_filename, now, disk>>

\* "Add Reminder": _add_reminder_from_ui and _add_reminder_object, lines 213-245.
AddForm(form) ==
    LET task         == Strip(form.task)
        due_date_str == Strip(form.due)
        details      == Strip(form.details)
        invalid      == Validation(task, due_date_str)
        new_reminder == Reminder(NthFree(Ids(reminders_list), 1), task, S(due_date_str), form.priority,
                                 details, FALSE, None, now)
        appended     == Append(reminders_list, new_reminder)
    IN  IF invalid # ""
        THEN RejectedForm(form, invalid)
        ELSE /\ Len(reminders_list) < MaxLen
             /\ IF SortRaises(appended)
                THEN RaisedForm(form, appended, Append(inserted, new_reminder.id))
                ELSE /\ reminders_list' = _sort_reminders(appended)
                     /\ inserted' = Append(inserted, new_reminder.id)
                     /\ RefreshAndClear("Reminder added.")

_add_reminder_from_ui ==
    /\ add_button = "normal"
    /\ \E form \in Typed : AddForm(form)

\* The assignments of lines 367-370.
UpdatedResetsCompleted(r, task, due_date_obj, priority, details) ==
    [r EXCEPT !.task = task, !.due_date = due_date_obj, !.priority = priority,
              !.details = details, !.is_completed = FALSE]

Updated(r, task, due_date_obj, priority, details) ==
    [r EXCEPT !.task = task, !.due_date = due_date_obj, !.priority = priority,
              !.details = details]

\* "Update Selected": _update_selected_reminder, lines 342-378.
UpdateForm(form) ==
    LET index            == _get_selected_reminder_object(selection, reminders_list)
        new_task         == Strip(form.task)
        new_due_date_str == Strip(form.due)
        new_details      == Strip(form.details)
        invalid          == Validation(new_task, new_due_date_str)
    IN  IF index = 0
        THEN Rejected("Update: No reminder selected to update.")
        ELSE IF invalid # ""
        THEN RejectedForm(form, invalid)
        ELSE LET mutated == [reminders_list EXCEPT ![index] =
                                Updated(@, new_task, Strptime(new_due_date_str).dt,
                                        form.priority, new_details)]
             IN  IF SortRaises(mutated)
                 THEN RaisedForm(form, mutated, inserted)
                 ELSE /\ reminders_list' = _sort_reminders(mutated)
                      /\ inserted' = inserted
                      /\ RefreshAndClear("Reminder updated.")

_update_selected_reminder ==
    /\ update_button = "normal"
    /\ \E form \in Typed : UpdateForm(form)

\* list.remove(selected_reminder), line 386: the object itself goes.
Remove(list, index) == RemoveAt(list, index)

\* "Delete Selected": _delete_selected_reminder, lines 381-392.  `yes' is the
\* answer to the question of line 384.
_delete_selected_reminder ==
    /\ delete_button = "normal"
    /\ LET index == _get_selected_reminder_object(selection, reminders_list)
       IN  IF index = 0
           THEN Rejected("Delete: No reminder selected to delete.")
           ELSE \E yes \in BOOLEAN :
                  IF ~yes THEN Rejected("none")
                  ELSE LET removed == Remove(reminders_list, index)
                           ins     == SelectSeq(inserted, LAMBDA x : x # reminders_list[index].id)
                       IN  IF SortRaises(removed)
                           THEN Raised(removed, ins)
                           ELSE /\ reminders_list' = _sort_reminders(removed)
                                /\ inserted' = ins
                                /\ RefreshAndClear("Reminder deleted.")

\* The assignment of line 405.
Toggled(list, index) ==
    [list EXCEPT ![index].is_completed = ~@]

\* "Toggle Complete" or a double click: _toggle_complete_selected, lines
\* 402-421.  It ends by calling _on_reminder_select itself.
_toggle_complete_selected ==
    LET index == _get_selected_reminder_object(selection, reminders_list)
    IN  IF index = 0
        THEN Rejected("Toggle Complete: No reminder selected.")
        ELSE LET toggled == Toggled(reminders_list, index)
             IN  IF SortRaises(toggled)
                 THEN Raised(toggled, inserted)
                 ELSE /\ reminders_list' = _sort_reminders(toggled)
                      /\ reminders_tree' = _refresh_reminders_tree(reminders_list')
                      /\ selection' = <<>>
                      /\ SetButtons("normal", "disabled", "disabled")
                      /\ StillEditing(reminders_list')
                      /\ UNCHANGED <<current_filename, fields, now, disk, inserted>>

\* "Load for Edit": _load_selected_for_editing, lines 326-339.
_load_selected_for_editing ==
    /\ edit_button = "normal"
    /\ LET index == _get_selected_reminder_object(selection, reminders_list)
       IN  IF index = 0
           THEN Rejected("none")
           ELSE /\ task_entry' = reminders_list[index].task
                /\ due_date_entry' = Strftime(reminders_list[index].due_date)
                /\ priority_var' = reminders_list[index].priority
                /\ details_text' = reminders_list[index].details
                /\ SetButtons("disabled", "normal", edit_button)
                /\ editing' = reminders_list[index].id
                /\ UNCHANGED <<reminders_list, current_filename, reminders_tree,
                               selection, now, disk, inserted>>

\* A load that puts the state `res' of _load_reminders_core in place.
Loaded(res) ==
    /\ reminders_list' = res.list
    /\ reminders_tree' = res.tree
    /\ selection' = res.selection
    /\ current_filename' = res.current_filename
    /\ inserted' = res.inserted
    /\ \E ev \in (IF res.refreshed THEN DeleteEvents ELSE {FALSE}) :
           AfterEvents(ev, res.selection, add_button, update_button, edit_button)
    /\ IF res.replaced THEN editing' = 0 ELSE StillEditing(reminders_list)
    /\ UNCHANGED <<fields, now, disk>>

\* _load_reminders_core(filename) when the file holds `file'.
LoadFile(file, filename) ==
    LET res == _load_reminders_core(file, filename, reminders_list, reminders_tree,
                                    selection, current_filename, inserted, now)
    IN  Loaded(res)

(* File > Open: _load_reminders_dialog, lines 464-471.  The user opens the *)
(* default file, which holds anything: what this program saved and what    *)
(* anybody else wrote.                                                     *)
_load_reminders_dialog == \E file \in Files : LoadFile(file, DEFAULT_FILENAME)

Next ==
    \/ SelectRow
    \/ _clear_input_fields
    \/ _set_due_date_to_now
    \/ _clear_all_fields_and_list
    \/ _delete_all_reminders
    \/ _add_reminder_from_ui
    \/ _update_selected_reminder
    \/ _delete_selected_reminder
    \/ _toggle_complete_selected
    \/ _load_selected_for_editing
    \/ _load_reminders_dialog

Spec == Init /\ [][Next]_vars

-----------------------------------------------------------------------------
(* A session on reminders of earlier days: the default file holds what an  *)
(* earlier session saved, and the user opens no other file.                *)

OldDocuments ==
    { [arr |-> <<E_OLD>>],
      [arr |-> <<E_MINIMAL, E_OLD>>] }

InitEdit == \E file \in OldDocuments : Startup(file)

NextEdit ==
    \/ SelectRow
    \/ _clear_input_fields
    \/ _set_due_date_to_now
    \/ _clear_all_fields_and_list
    \/ _delete_all_reminders
    \/ _add_reminder_from_ui
    \/ _update_selected_reminder
    \/ _delete_selected_reminder
    \/ _toggle_complete_selected
    \/ _load_selected_for_editing

SpecEdit == InitEdit /\ [][NextEdit]_vars

-----------------------------------------------------------------------------
(* Persistence: what is saved is what is loaded *)

(* The document json.dump writes for `list', lines 431-433.  json.dump and *)
(* json.load are inverse on lists, dicts with string keys, strings and     *)
(* booleans, so a file is modelled by the document it holds.               *)
Encode(list) == [arr |-> [i \in 1..Len(list) |-> to_dict(list[i])]]

(* How the try block of lines 430-437 ends: open() raises OSError and the  *)
(* file is as it was; or open() has truncated the file and json.dump       *)
(* raises while writing (disk full), which leaves a part of the document,  *)
(* no valid JSON; or the document is written.                              *)
SaveOutcomes == {"open fails", "write fails", "saved"}

SaveFileRenamesFirst(filename, outcome) ==
    /\ current_filename' = filename
    /\ disk' = IF outcome = "saved"
               THEN [disk EXCEPT ![filename] = Encode(reminders_list)]
               ELSE IF outcome = "write fails"
               THEN [disk EXCEPT ![filename] = FileInvalid]
               ELSE disk
    /\ UNCHANGED <<reminders_list, reminders_tree, selection, fields, buttons,
                   now, inserted, editing>>

(* _save_reminders(filename), lines 424-440.  current_filename is assigned *)
(* after json.dump (line 434); the except of line 437 only shows the       *)
(* message box and sets the status line.                                   *)
SaveFile(filename, outcome) ==
    /\ disk' = IF outcome = "saved"
               THEN [disk EXCEPT ![filename] = Encode(reminders_list)]
               ELSE IF outcome = "write fails"
               THEN [disk EXCEPT ![filename] = FileInvalid]
               ELSE disk
    /\ current_filename' = IF outcome = "saved" THEN filename ELSE current_filename
    /\ UNCHANGED <<reminders_list, reminders_tree, selection, fields, buttons,
                   now, inserted, editing>>

\* File > Save: _save_reminders() on current_filename.
_save_reminders == \E outcome \in SaveOutcomes : SaveFile(current_filename, outcome)

\* File > Save As: _save_reminders_as_dialog, lines 442-449.
_save_reminders_as_dialog ==
    \E filename \in Filenames, outcome \in SaveOutcomes : SaveFile(filename, outcome)

\* File > Open on a file this program saved.
LoadSaved == \E filename \in Filenames : LoadFile(disk[filename], filename)

\* The due dates, the priorities and the creation dates of the collections
\* the persistence is checked on.
CodecDues == {T_JAN, T_MAY_SHORT, T_Y999}

CodecRecords ==
    { Reminder(1, <<"a">>, S(due), priority, <<"x">>, is_completed, creation_date, StartTime) :
        due \in CodecDues, priority \in {"High", "Low"}, is_completed \in BOOLEAN,
        creation_date \in {None, S(T_CREATED)} }

(* The collections: every list of at most MaxLen of the records, as the    *)
(* handlers leave it, sorted, each record an object of its own.            *)
CodecCollections ==
    { _sort_reminders([i \in 1..Len(list) |-> [list[i] EXCEPT !.id = i]]) :
        list \in UNION {[1..n -> CodecRecords] : n \in 0..MaxLen} }

(* The application with such a collection in memory and nothing saved yet. *)
InitCodec ==
    /\ now = StartTime
    /\ task_entry = <<>>
    /\ due_date_entry = Strftime(StartTime)
    /\ priority_var = PRIORITY_LEVELS[2]
    /\ details_text = <<>>
    /\ add_button = "normal"
    /\ update_button = "disabled"
    /\ edit_button = "disabled"
    /\ delete_button = "disabled"
    /\ complete_button = "disabled"
    /\ disk = [f \in Filenames |-> FileMissing]
    /\ current_filename = DEFAULT_FILENAME
    /\ selection = <<>>
    /\ reminders_list \in CodecCollections
    /\ reminders_tree = _refresh_reminders_tree(reminders_list)
    /\ inserted = IdSeq(reminders_list)
    /\ editing = 0

NextCodec ==
    \/ _save_reminders
    \/ _save_reminders_as_dialog
    \/ LoadSaved
    \/ Tick

SpecCodec == InitCodec /\ [][NextCodec]_vars

-----------------------------------------------------------------------------
(* Properties *)

\* The reminder the handlers act on: its position in reminders_list, 0 for none.
Selected == _get_selected_reminder_object(selection, reminders_list)

\* What a load of `file' leaves, in the state it starts from.
LoadResult(file) ==
    _load_reminders_core(file, DEFAULT_FILENAME, reminders_list, reminders_tree,
                         selection, current_filename, inserted, now)

\* The reminder of `list' that is the object `id'.
ById(list, id) == list[IndexOfId(list, id)]

(* C1: in every state the list is in canonical order: no reminder has a    *)
(* key (is_completed, due_date, priority rank) smaller than the key of the *)
(* reminder before it.                                                     *)
C1_CanonicalOrder ==
    \A i \in 1..(Len(reminders_list) - 1) :
        ~TupleLess(SortKey(reminders_list[i + 1]), SortKey(reminders_list[i]))

(* C2: a load that reports an error leaves reminders_list as it was: a     *)
(* step that changes reminders_list is no load that reports an error.      *)
C2_LoadErrorKeepsCollection ==
    [][reminders_list' # reminders_list =>
         \A file \in Files :
             LoadResult(file).report # "Reminders loaded" => ~LoadFile(file, DEFAULT_FILENAME)]_vars

\* Every due date of `list' was parsed from a text: it is a whole minute.
DuesFromText(list) == \A i \in 1..Len(list) : list[i].due_date[6] = 0

\* The two lists have the same length, and the same six fields at each place.
SameFields(a, b) ==
    /\ Len(a) = Len(b)
    /\ \A i \in 1..Len(a) :
          /\ a[i].task = b[i].task
          /\ a[i].due_date = b[i].due_date
          /\ a[i].priority = b[i].priority
          /\ a[i].details = b[i].details
          /\ a[i].is_completed = b[i].is_completed
          /\ a[i].creation_date = b[i].creation_date

(* C3: loading the file that holds what _save_reminders wrote for the      *)
(* list in memory, all of whose due dates were parsed from a text, gives   *)
(* a list of the same length and order with the same fields.               *)
C3_RoundTrip ==
    [][\A filename \in Filenames :
          (/\ disk[filename] = Encode(reminders_list)
           /\ DuesFromText(reminders_list)
           /\ LoadFile(disk[filename], filename))
          => SameFields(reminders_list', reminders_list)]_vars

\* The task is empty after strip(), or the due date is empty or does not
\* parse under DATE_FORMAT.
InvalidForm(form) ==
    \/ Strip(form.task) = <<>>
    \/ Strip(form.due) = <<>>
    \/ ~Strptime(Strip(form.due)).ok

(* C4: "Add Reminder" and "Update Selected" on a form that is invalid      *)
(* leave reminders_list as it was: a step that changes reminders_list is   *)
(* neither of them on an invalid form.                                     *)
C4_RejectedLeavesCollection ==
    [][reminders_list' # reminders_list =>
         \A form \in Typed :
             InvalidForm(form) =>
                 /\ ~(add_button = "normal" /\ AddForm(form))
                 /\ ~(update_button = "normal" /\ UpdateForm(form))]_vars

\* "Update Selected" has rejected a date that does not parse, with a row
\* selected: only a rejected update leaves this text there in edit mode.
C4_Witness ==
    /\ update_button = "normal"
    /\ due_date_entry = T_NOT_A_DATE
    /\ Selected # 0

(* C5: a load of a document whose top level is no array never reports      *)
(* success.                                                                *)
C5_NonArrayFails ==
    [][\A file \in NonArrayDocuments :
          LoadFile(file, DEFAULT_FILENAME) => LoadResult(file).report # "Reminders loaded"]_vars

\* The position of `id' in the history `inserted'.
InsertedAt(id) == CHOOSE k \in 1..Len(inserted) : inserted[k] = id

(* C6 as the specification states it: two reminders of equal key are in    *)
(* the list in the order in which they were put into it.                   *)
C6_InsertionOrder ==
    \A i, j \in 1..Len(reminders_list) :
        (i < j /\ SortKey(reminders_list[i]) = SortKey(reminders_list[j]))
        => InsertedAt(reminders_list[i].id) < InsertedAt(reminders_list[j].id)

\* One of the four handlers that change a list in place has run.
Mutation ==
    \/ _add_reminder_from_ui
    \/ _update_selected_reminder
    \/ _delete_selected_reminder
    \/ _toggle_complete_selected

\* The reminder at place j of the list after the step was in the list
\* before it, and the one at place i was not, or was behind it.
Overtaken(i, j) ==
    /\ reminders_list'[j].id \in Ids(reminders_list)
    /\ \/ reminders_list'[i].id \notin Ids(reminders_list)
       \/ IndexOfId(reminders_list, reminders_list'[i].id)
            > IndexOfId(reminders_list, reminders_list'[j].id)

(* C6: after add, update, delete or toggle, two reminders of equal key     *)
(* that were both in the list before are in the order they had before,     *)
(* and a reminder that was added is behind the others of its key: a step   *)
(* that puts a reminder in front of one of equal key that was before it,   *)
(* or that it was not in the list with, is none of the four.               *)
C6_OrderKept ==
    [][(\E i, j \in 1..Len(reminders_list') :
           /\ i < j
           /\ SortKey(reminders_list'[i]) = SortKey(reminders_list'[j])
           /\ Overtaken(i, j))
       => ~Mutation]_vars

\* Two reminders of equal key, the one put in later first.
C6_Witness ==
    /\ Len(reminders_list) = 2
    /\ ~SortRaises(reminders_list)
    /\ SortKey(reminders_list[1]) = SortKey(reminders_list[2])
    /\ InsertedAt(reminders_list[2].id) < InsertedAt(reminders_list[1].id)

(* C7: "Delete Selected", when it removes, removes one reminder and leaves *)
(* the others as they were, and pressed again it finds no reminder to      *)
(* remove.                                                                 *)
C7_DeleteOnce ==
    [][(reminders_list' # reminders_list /\ _delete_selected_reminder) =>
         /\ \E i \in 1..Len(reminders_list) : reminders_list' = RemoveAt(reminders_list, i)
         /\ _get_selected_reminder_object(selection', reminders_list') = 0]_vars

\* The element has the three keys from_dict needs and a priority of
\* PRIORITY_LEVELS.
WellFormed(e) == ~FromDictRaises(e) /\ priority_map(e.obj.priority) # -1

\* Its due_date_str is no string or does not parse.
BadDue(e) == ~IsStr(e.obj.due_date_str) \/ ~Strptime(e.obj.due_date_str.str).ok

\* The arrays of well-formed elements of which one has such a due date.
FallbackDocuments ==
    { file \in ArrayDocuments :
        /\ \A k \in 1..Len(file.arr) : WellFormed(file.arr[k])
        /\ \E k \in 1..Len(file.arr) : BadDue(file.arr[k]) }

(* C8: in every state, a load of an array of well-formed elements, some    *)
(* with a due date that does not parse, succeeds and makes one reminder of *)
(* every element: of an element with such a due date a reminder that is    *)
(* due at the time of the load, of any other a reminder that is due when   *)
(* its text says.                                                          *)
C8_Fallback ==
    \A file \in FallbackDocuments :
        LET res == LoadResult(file)
        IN  /\ res.report = "Reminders loaded"
            /\ Len(res.list) = Len(file.arr)
            /\ \A k \in 1..Len(file.arr) :
                  /\ k \in Ids(res.list)
                  /\ LET r == ById(res.list, k)
                     IN  /\ r.task = file.arr[k].obj.task
                         /\ r.priority = file.arr[k].obj.priority
                         /\ IF BadDue(file.arr[k])
                            THEN /\ SubSeq(r.due_date, 1, 5) = SubSeq(now, 1, 5)
                                 /\ r.due_date[6] >= now[6]
                            ELSE r.due_date = Strptime(file.arr[k].obj.due_date_str.str).dt

\* A reminder that is due at an instant within the minute, which only the
\* fallback gives, beside one that is due when its text said.
C8_Witness ==
    \E i, j \in 1..Len(reminders_list) :
        /\ reminders_list[i].due_date[6] # 0
        /\ reminders_list[j].due_date = Strptime(T_JAN).dt

(* C9: "Update Selected", when it changes the list, neither adds nor       *)
(* removes a reminder, leaves creation_date and is_completed of the        *)
(* selected reminder as they were, and leaves every other reminder as it   *)
(* was.                                                                    *)
C9_UpdateFrame ==
    [][(reminders_list' # reminders_list /\ _update_selected_reminder) =>
         /\ Len(reminders_list') = Len(reminders_list)
         /\ Ids(reminders_list') = Ids(reminders_list)
         /\ \A i \in 1..Len(reminders_list) :
               IF i = Selected
               THEN /\ ById(reminders_list', reminders_list[i].id).creation_date
                         = reminders_list[i].creation_date
                    /\ ById(reminders_list', reminders_list[i].id).is_completed
                         = reminders_list[i].is_completed
               ELSE ById(reminders_list', reminders_list[i].id) = reminders_list[i]]_vars

\* The reminder of the earlier session, completed, with the task typed
\* over it.
C9_Witness ==
    \E i \in 1..Len(reminders_list) :
        /\ reminders_list[i].creation_date = T_CREATED
        /\ reminders_list[i].is_completed
        /\ reminders_list[i].task = <<"a">>

(* C10: "Toggle Complete" on a reminder that is not completed leaves it    *)
(* behind every reminder that is not completed, and changes is_completed   *)
(* of no other reminder.                                                   *)
C10_ToggleMovesBehind ==
    [][(/\ reminders_list' # reminders_list
        /\ _toggle_complete_selected
        /\ ~reminders_list[Selected].is_completed) =>
         /\ \A k \in 1..Len(reminders_list') :
               ~reminders_list'[k].is_completed
               => k < IndexOfId(reminders_list', reminders_list[Selected].id)
         /\ \A i \in 1..Len(reminders_list) :
               i # Selected
               => ById(reminders_list', reminders_list[i].id).is_completed
                      = reminders_list[i].is_completed]_vars

-----------------------------------------------------------------------------
(* C11: a save that fails, because the file cannot be opened or because    *)
(* writing it fails, leaves the collection in memory as it was, record by  *)
(* record and in the same order, and does not make the failed target the   *)
(* current file.                                                           *)
C11_FailedSaveFrame ==
    [][\A filename \in Filenames, outcome \in SaveOutcomes \ {"saved"} :
           SaveFile(filename, outcome)
           => /\ reminders_list' = reminders_list
              /\ current_filename' = current_filename]_vars

(* A write to the other file has failed and nothing was ever saved: the    *)
(* other file holds the part of a document, the default file does not      *)
(* exist and is still the current file of a collection that is not empty.  *)
C11_Witness ==
    /\ disk[OTHER_FILENAME] = FileInvalid
    /\ disk[DEFAULT_FILENAME] = FileMissing
    /\ current_filename = DEFAULT_FILENAME
    /\ reminders_list # <<>>

-----------------------------------------------------------------------------
(* C12: in every reachable state every record of the collection has a task *)
(* that is not empty.                                                      *)
C12_TaskNotEmpty ==
    \A i \in 1..Len(reminders_list) : reminders_list[i].task # <<>>

-----------------------------------------------------------------------------
(* C13: after every handler has returned, the rows of the tree are the     *)
(* records of reminders_list, one row for each record and in the same      *)
(* order: the row with iid i shows the values of the record at index i.    *)
C13_TreeShowsList ==
    reminders_tree = _refresh_reminders_tree(reminders_list)

-----------------------------------------------------------------------------
(* C14: the record that a successful "Update Selected" modifies is the     *)
(* record whose values "Load for Edit" most recently put into the input    *)
(* fields, whatever rows were selected and whatever handlers ran since.    *)
C14_UpdateEditsLoaded ==
    [][(reminders_list' # reminders_list /\ _update_selected_reminder)
       => reminders_list[Selected].id = editing]_vars

====
